---- MODULE Spec2Model ----
(***************************************************************************)
(* Model of the shadcn-scaffolder step pipeline (index.js main, the signal *)
(* handler, lib/state.js, lib/validator.js and the executor functions).    *)
(*                                                                         *)
(* One project path is modelled.  The disk holds the project directory,    *)
(* the checkpoint file .scaffolder-state.json, its .tmp sibling and the    *)
(* artifacts the verification step looks for.  A run of the process goes   *)
(* through the statements of main(); pc names the source line the process  *)
(* is at.  JavaScript runs to completion between awaits, so a signal is    *)
(* handled only at the await points; a crash (kill -9, power loss of the   *)
(* process) can happen anywhere, also between the two filesystem calls of  *)
(* saveState.  After the process has stopped the command can be run again. *)
(***************************************************************************)
EXTENDS Integers, Sequences, FiniteSets, TLC

(* ---------------- bounds of the model ---------------- *)

\* longest --components list an invocation passes
MaxCustom == 2
\* the longest list installComponents is called with as a function
MaxItems == 5

(* ---------------- lib/utils.js ---------------- *)

EXIT_SUCCESS == 0
EXIT_FAILURE == 1

\* TIMEOUTS.componentInstall (milliseconds, as all times of the model)
TIMEOUT_componentInstall == 300000
\* the headroom below which the fallback loop attempts no further item
RESERVE == 5000
\* the cap of one per-item attempt
PER_COMPONENT_CAP == 60000

TemplateNames == {"minimal", "form", "dashboard"}

TEMPLATES(t) ==
  CASE t = "minimal" -> <<"button", "card", "badge", "input">>
    [] t = "form" -> <<"button", "card", "input", "label", "form",
                       "select", "checkbox", "radio-group", "textarea", "switch">>
    [] t = "dashboard" -> <<"button", "card", "badge", "input", "tabs", "table",
                            "chart", "sidebar", "dropdown-menu", "avatar",
                            "separator", "skeleton">>

(* ---------------- the fixed step order ---------------- *)

STEPS == <<"viteCreate", "npmInstall", "shadcnInit", "componentInstall", "verification">>
StepNames == {STEPS[i] : i \in 1..Len(STEPS)}

\* index of the first step of the fixed order that is not done, 0 if none
FirstNotDone(steps) ==
  IF \A i \in 1..Len(STEPS) : steps[STEPS[i]] = "done" THEN 0
  ELSE CHOOSE i \in 1..Len(STEPS) :
         /\ steps[STEPS[i]] # "done"
         /\ \A j \in 1..(i - 1) : steps[STEPS[j]] = "done"

(* ---------------- values ---------------- *)

\* state.error: null, or a message (kind names the message, detail its variable part)
NoError == [kind |-> "null", detail |-> <<>>]
Err(kind, detail) == [kind |-> kind, detail |-> detail]

\* no ScaffoldState object (before "let state" is assigned)
NoState == [none |-> TRUE]

\* files
Absent == [kind |-> "absent"]
\* a torn write: a proper prefix of a JSON text
Partial == [kind |-> "partial"]
\* text that is not JSON
Garbage == [kind |-> "garbage"]
\* a complete JSON text and the value JSON.parse gives for it
Json(v) == [kind |-> "json", val |-> v]
JsonNull == [null |-> TRUE]
JsonEmptyObject == [emptyObject |-> TRUE]

RangeOf(s) == {s[i] : i \in 1..Len(s)}

(* ---------------- lib/state.js ---------------- *)

\* (projectPath is fixed by projectName, one project path being modelled;
\* startedAt is a time of day, which the model does not have)
createInitialState(projectName, template, components) ==
  [version |-> 1,
   projectName |-> projectName,
   template |-> template,
   components |-> components,
   freshCreation |-> TRUE,
   steps |-> [s \in StepNames |-> "pending"],
   installedComponents |-> <<>>,
   failedComponents |-> <<>>,
   error |-> NoError]

\* JSON.stringify(state, null, 2): the complete text of the state
\* (updatedAt, the only field saveState changes, is not modelled)
Serialize(state) == Json(state)

\* The filesystem effects saveState can have, with every point at which the
\* process can die inside it.  res: "ok" returned, "threw" writeFileSync threw
\* (the project directory does not exist), "crashed" the process died.
saveState_direct(dir, ckpt, tmp, state) ==
  IF ~dir THEN {[ckpt |-> ckpt, tmp |-> tmp, res |-> "threw", at |-> "write"]}
  ELSE {[ckpt |-> ckpt, tmp |-> tmp, res |-> "crashed", at |-> "before-write"],
        [ckpt |-> Partial, tmp |-> tmp, res |-> "crashed", at |-> "in-write"],
        [ckpt |-> Serialize(state), tmp |-> tmp, res |-> "crashed", at |-> "after-write"],
        [ckpt |-> Serialize(state), tmp |-> tmp, res |-> "ok", at |-> "return"]}

saveState_noRename(dir, ckpt, tmp, state) ==
  IF ~dir THEN {[ckpt |-> ckpt, tmp |-> tmp, res |-> "threw", at |-> "write"]}
  ELSE {[ckpt |-> ckpt, tmp |-> tmp, res |-> "crashed", at |-> "before-write"],
        [ckpt |-> ckpt, tmp |-> Partial, res |-> "crashed", at |-> "in-write"],
        [ckpt |-> ckpt, tmp |-> Serialize(state), res |-> "ok", at |-> "return"]}

saveState(dir, ckpt, tmp, state) ==
  IF ~dir THEN {[ckpt |-> ckpt, tmp |-> tmp, res |-> "threw", at |-> "write"]}
  ELSE {[ckpt |-> ckpt, tmp |-> tmp, res |-> "crashed", at |-> "before-write"],
        [ckpt |-> ckpt, tmp |-> Partial, res |-> "crashed", at |-> "in-write"],
        [ckpt |-> ckpt, tmp |-> Serialize(state), res |-> "crashed", at |-> "before-rename"],
        [ckpt |-> Serialize(state), tmp |-> Absent, res |-> "crashed", at |-> "after-rename"],
        [ckpt |-> Serialize(state), tmp |-> Absent, res |-> "ok", at |-> "return"]}

\* updateStep's assignments (state.steps[stepName] = status; Object.assign(state, extra))
SetStep_clearsError(state, stepName, status) ==
  [state EXCEPT !.steps[stepName] = status,
                !.error = IF status = "failed" THEN @ ELSE NoError]
SetStep(state, stepName, status) ==
  [state EXCEPT !.steps[stepName] = status]

\* removeState: unlink the checkpoint if it exists
removeState(ckpt) == Absent

(* ---------------- the executor (lib/validator.js, lines 100-355) ---------------- *)

\* TIMEOUTS
TIMEOUT_viteCreate == 120000
TIMEOUT_npmInstall == 120000
TIMEOUT_shadcnInit == 60000

\* What an external command does when it is run: it cannot be spawned, or it
\* runs for dur milliseconds and then exits with code zero or non-zero.
Durations == {1000, 240000, 300000}
Behaviours == [exit : {"zero", "nonzero", "spawnError"}, dur : Durations]

\* runCommand: the promise rejects on a spawn error; a child that is still
\* running at the timeout is killed with SIGTERM (code null, timedOut);
\* otherwise the child's exit code is reported.  time is how long it took.
runCommand_noKill(b, timeout) ==
  IF b.exit = "spawnError"
    THEN [rejected |-> TRUE, code |-> "none", timedOut |-> FALSE, time |-> 0]
  ELSE [rejected |-> FALSE, code |-> b.exit, timedOut |-> FALSE, time |-> b.dur]
runCommand(b, timeout) ==
  IF b.exit = "spawnError"
    THEN [rejected |-> TRUE, code |-> "none", timedOut |-> FALSE, time |-> 0]
  ELSE IF b.dur >= timeout
    THEN [rejected |-> FALSE, code |-> "null", timedOut |-> TRUE, time |-> timeout]
  ELSE [rejected |-> FALSE, code |-> b.exit, timedOut |-> FALSE, time |-> b.dur]

Success == [success |-> TRUE, error |-> NoError]
Failure(e) == [success |-> FALSE, error |-> e]

\* createViteProject, after the command has returned r; files is what exists
\* in the project directory then
createViteProject(r, files) ==
  IF r.rejected THEN Failure(Err("spawn", <<"viteCreate">>))
  ELSE IF r.timedOut THEN Failure(Err("timeout", <<"viteCreate">>))
  ELSE IF r.code # "zero" THEN Failure(Err("exitCode", <<"viteCreate">>))
  ELSE IF "package.json" \notin files THEN Failure(Err("notFound", <<"package.json">>))
  ELSE Success

npmInstall(r, files) ==
  IF r.rejected THEN Failure(Err("spawn", <<"npmInstall">>))
  ELSE IF r.timedOut THEN Failure(Err("timeout", <<"npmInstall">>))
  ELSE IF r.code # "zero" THEN Failure(Err("exitCode", <<"npmInstall">>))
  ELSE IF "node_modules" \notin files THEN Failure(Err("notFound", <<"node_modules">>))
  ELSE Success

initShadcn_swallow(r) ==
  IF r.rejected THEN Success
  ELSE IF r.timedOut THEN Failure(Err("timeout", <<"shadcnInit">>))
  ELSE IF r.code # "zero" THEN Failure(Err("exitCode", <<"shadcnInit">>))
  ELSE Success

initShadcn(r) ==
  IF r.rejected THEN Failure(Err("spawn", <<"shadcnInit">>))
  ELSE IF r.timedOut THEN Failure(Err("timeout", <<"shadcnInit">>))
  ELSE IF r.code # "zero" THEN Failure(Err("exitCode", <<"shadcnInit">>))
  ELSE Success

\* verifyProject: the blocking and the non-blocking checks, in the order of
\* the source
BLOCKING == <<"package.json", "node_modules", "src", "vite.config.ts">>
NONBLOCKING == <<"components.json", "src/lib/utils.ts", "src/components/ui">>

\* path.join(uiDir, `${name}.tsx`), for the names of the model
ComponentFile(name) ==
  CASE name = "button" -> "src/components/ui/button.tsx"
    [] name = "card" -> "src/components/ui/card.tsx"
    [] name = "badge" -> "src/components/ui/badge.tsx"
    [] name = "input" -> "src/components/ui/input.tsx"

verifyProject_allBlocking(files, expectedComponents) ==
  LET missing == SelectSeq(BLOCKING \o NONBLOCKING, LAMBDA f : f \notin files)
  IN [valid |-> missing = <<>>, missing |-> missing, warnings |-> <<>>]

verifyProject(files, expectedComponents) ==
  LET missing == SelectSeq(BLOCKING, LAMBDA f : f \notin files)
      notFound == SelectSeq(NONBLOCKING, LAMBDA f : f \notin files)
      noFile == IF "src/components/ui" \in files
                  THEN SelectSeq(expectedComponents, LAMBDA n : ComponentFile(n) \notin files)
                  ELSE <<>>
  IN [valid |-> missing = <<>>,
      missing |-> missing,
      warnings |-> [i \in 1..Len(notFound) |-> <<"Expected not found", notFound[i]>>]
                   \o [i \in 1..Len(noFile) |-> <<"Component file not found", noFile[i]>>]]

\* what the bootstrap command and the dependency manager may leave behind
ViteOutputs == {{}, {"package.json"}, {"package.json", "src", "vite.config.ts"}}
NpmOutputs == {{}, {"node_modules"}}
\* what shadcn init may leave behind, and what shadcn add of the names in
\* components leaves behind when it writes its files (it may also write none)
InitOutputs == {{}, {"components.json", "src/lib/utils.ts"}}
AddOutputs(components) ==
  {"src/components/ui"} \cup {ComponentFile(n) : n \in RangeOf(components)}

(* ---------------- lib/validator.js ---------------- *)

\* the character classes of the strings the model passes as names
Chars(s) ==
  CASE s = "" -> <<>>
    [] s = "my-app" -> <<"lower", "lower", "hyphen", "lower", "lower", "lower">>
    [] s = "1app" -> <<"digit", "lower", "lower", "lower">>
    [] s = "button" -> <<"lower", "lower", "lower", "lower", "lower", "lower">>
    [] s = "card" -> <<"lower", "lower", "lower", "lower">>
    [] s = "Tabs" -> <<"upper", "lower", "lower", "lower">>

\* /^[a-zA-Z][a-zA-Z0-9._-]*$/
ProjectNameOk(s) ==
  LET c == Chars(s)
  IN /\ Len(c) > 0
     /\ c[1] \in {"lower", "upper"}
     /\ \A i \in 2..Len(c) : c[i] \in {"lower", "upper", "digit", "dot", "underscore", "hyphen"}

\* /^[a-z][a-z0-9-]*$/
ComponentNameOk(s) ==
  LET c == Chars(s)
  IN /\ Len(c) > 0
     /\ c[1] = "lower"
     /\ \A i \in 2..Len(c) : c[i] \in {"lower", "digit", "hyphen"}

\* [...new Set(components)]: the distinct names, each at its first position
RECURSIVE Unique(_)
Unique(seq) ==
  IF seq = <<>> THEN <<>>
  ELSE LET head == Unique(SubSeq(seq, 1, Len(seq) - 1))
           last == seq[Len(seq)]
       IN IF last \in RangeOf(head) THEN head ELSE Append(head, last)

\* JSON.parse of the checkpoint file: throws on text that is not JSON
ParseThrows(file) == file.kind \in {"partial", "garbage"}
Parse(file) == file.val

\* if (existingState): null is falsy, every object is truthy
Truthy(v) == v # NoState /\ v # JsonNull

\* args: [projectName, template, components, target]; target is what is at
\* --target: [exists, isDir, writable].  dir and ckpt are the project
\* directory and the checkpoint file in it.
validateInputs_failFast(args, dir, ckpt) ==
  LET nameErrors ==
        IF args.projectName = "" THEN <<"Project name is required.">>
        ELSE IF ~ProjectNameOk(args.projectName) THEN <<"Invalid project name">>
        ELSE <<>>
      templateErrors ==
        IF args.template \notin (TemplateNames \cup {"custom"})
          THEN <<"Invalid template">> ELSE <<>>
      components == args.components
      componentErrors ==
        IF args.template # "custom" THEN <<>>
        ELSE IF Len(components) = 0 THEN <<"Custom template requires at least one component">>
        ELSE IF Len(components) > 20 THEN <<"Too many components">>
        ELSE [i \in 1..Cardinality({j \in 1..Len(components) : ~ComponentNameOk(components[j])})
                |-> "Invalid component name"]
             \o (IF Cardinality(RangeOf(components)) # Len(components)
                   THEN <<"Duplicate component names detected.">> ELSE <<>>)
      resolvedComponents ==
        IF args.template = "custom"
          THEN (IF Len(components) = 0 \/ Len(components) > 20 THEN <<>> ELSE Unique(components))
        ELSE IF args.template \in TemplateNames THEN TEMPLATES(args.template)
        ELSE <<>>
      targetErrors ==
        IF ~args.target.exists THEN <<"Target directory does not exist">>
        ELSE (IF ~args.target.isDir THEN <<"Target path is not a directory">> ELSE <<>>)
             \o (IF ~args.target.writable THEN <<"Target directory is not writable">> ELSE <<>>)
      projectExists == args.target.exists /\ args.target.isDir /\ dir
      pathErrors ==
        IF ~projectExists THEN <<>>
        ELSE IF ckpt.kind = "absent" THEN <<"Directory already exists">>
        ELSE IF ParseThrows(ckpt) THEN <<"State file exists but is corrupted">>
        ELSE <<>>
      existingState ==
        IF projectExists /\ ckpt.kind # "absent" /\ ~ParseThrows(ckpt) THEN Parse(ckpt) ELSE NoState
      errors ==
        IF nameErrors # <<>> THEN nameErrors
        ELSE IF templateErrors # <<>> THEN templateErrors
        ELSE IF componentErrors # <<>> THEN componentErrors
        ELSE IF targetErrors # <<>> THEN targetErrors
        ELSE pathErrors
  IN [valid |-> errors = <<>>,
      errors |-> errors,
      resolvedComponents |-> resolvedComponents,
      existingState |-> existingState]

validateInputs(args, dir, ckpt) ==
  LET nameErrors ==
        IF args.projectName = "" THEN <<"Project name is required.">>
        ELSE IF ~ProjectNameOk(args.projectName) THEN <<"Invalid project name">>
        ELSE <<>>
      templateErrors ==
        IF args.template \notin (TemplateNames \cup {"custom"})
          THEN <<"Invalid template">> ELSE <<>>
      components == args.components
      componentErrors ==
        IF args.template # "custom" THEN <<>>
        ELSE IF Len(components) = 0 THEN <<"Custom template requires at least one component">>
        ELSE IF Len(components) > 20 THEN <<"Too many components">>
        ELSE [i \in 1..Cardinality({j \in 1..Len(components) : ~ComponentNameOk(components[j])})
                |-> "Invalid component name"]
             \o (IF Cardinality(RangeOf(components)) # Len(components)
                   THEN <<"Duplicate component names detected.">> ELSE <<>>)
      resolvedComponents ==
        IF args.template = "custom"
          THEN (IF Len(components) = 0 \/ Len(components) > 20 THEN <<>> ELSE Unique(components))
        ELSE IF args.template \in TemplateNames THEN TEMPLATES(args.template)
        ELSE <<>>
      targetErrors ==
        IF ~args.target.exists THEN <<"Target directory does not exist">>
        ELSE (IF ~args.target.isDir THEN <<"Target path is not a directory">> ELSE <<>>)
             \o (IF ~args.target.writable THEN <<"Target directory is not writable">> ELSE <<>>)
      projectExists == args.target.exists /\ args.target.isDir /\ dir
      pathErrors ==
        IF ~projectExists THEN <<>>
        ELSE IF ckpt.kind = "absent" THEN <<"Directory already exists">>
        ELSE IF ParseThrows(ckpt) THEN <<"State file exists but is corrupted">>
        ELSE <<>>
      existingState ==
        IF projectExists /\ ckpt.kind # "absent" /\ ~ParseThrows(ckpt) THEN Parse(ckpt) ELSE NoState
      errors == nameErrors \o templateErrors \o componentErrors \o targetErrors \o pathErrors
  IN [valid |-> errors = <<>>,
      errors |-> errors,
      resolvedComponents |-> resolvedComponents,
      existingState |-> existingState]

(* ---------------- the state ---------------- *)

VARIABLES
  pc,          \* the line of main() the process is at, "stopped" when no process runs
  exitCode,    \* exit code of the last process, -1 when none or when it crashed
  stop,        \* why the last process stopped
  dirExists,   \* disk: the project directory exists
  ckpt,        \* disk: .scaffolder-state.json
  tmp,         \* disk: .scaffolder-state.json.tmp
  files,       \* disk: which of the verified artifacts exist in the project directory
  state,       \* main's state object (also _currentState once assigned)
  loaded,      \* the checkpoint value this run resumed from, NoState in a fresh run
  result,      \* the result object of the step function that returned last
  invoked,     \* steps for which an external command was spawned in this run
  firstCmd,    \* the step of the first external command spawned in this run
  persisted,   \* steps for which updateStep was called in this run
  spawnErrors, \* steps of which a command could not be spawned in this run
  itemCmds,    \* number of per-item install commands spawned in this run
  op,          \* the filesystem operation the last step performed
  elapsed,     \* installComponents: Date.now() - startTime
  installed,   \* installComponents: installed
  failed,      \* installComponents: failed
  idx          \* installComponents: position of the fallback loop in components

disk == <<dirExists, ckpt, tmp, files>>
run == <<invoked, firstCmd, persisted, spawnErrors, itemCmds>>
installer == <<elapsed, installed, failed, idx>>
vars == <<pc, exitCode, stop, dirExists, ckpt, tmp, files, state, loaded, result,
          invoked, firstCmd, persisted, spawnErrors, itemCmds, op, elapsed, installed, failed, idx>>

NoResult == [none |-> TRUE]

\* op: the filesystem operation of the last step; for saveState, the point
\* it got to and the state it was called with
Op(name) == [name |-> name, at |-> "", arg |-> NoState]
\* an external command ended with r (of runCommand)
ExternalOp(r) ==
  [name |-> "external",
   at |-> IF r.rejected THEN "spawnError" ELSE IF r.timedOut THEN "timedOut" ELSE r.code,
   arg |-> NoState]
\* validateInputs was called with args
ValidateOp(args) == [name |-> "validateInputs", at |-> "", arg |-> args]
SaveOp(at, state_) == [name |-> "saveState", at |-> at, arg |-> state_]

AwaitPcs == {"awaitVite", "awaitNpm", "awaitInit", "awaitBatch", "awaitItem"}

\* the invocations the model passes
ComponentPool == {"button", "card", "Tabs"}
CustomLists == UNION {[1..n -> ComponentPool] : n \in 0..MaxCustom}
Targets == {[exists |-> TRUE, isDir |-> TRUE, writable |-> TRUE],
            [exists |-> TRUE, isDir |-> TRUE, writable |-> FALSE],
            [exists |-> TRUE, isDir |-> FALSE, writable |-> TRUE],
            [exists |-> FALSE, isDir |-> FALSE, writable |-> FALSE]}
AllInvocations ==
  [projectName : {"my-app", "1app"}, template : {"custom", "minimal", "nope"},
   components : CustomLists, target : Targets]
\* the invocations of the pipeline runs: two valid ones of the custom
\* template, and three that differ from the first in one argument and are
\* rejected (a bad name, a duplicate component, a missing target directory)
Differs(a) ==
  (IF a.projectName # "my-app" THEN 1 ELSE 0) + (IF a.template # "custom" THEN 1 ELSE 0)
  + (IF a.components # <<"button", "card">> THEN 1 ELSE 0)
  + (IF a.target # [exists |-> TRUE, isDir |-> TRUE, writable |-> TRUE] THEN 1 ELSE 0)
Invocations ==
  {a \in AllInvocations :
     \/ Differs(a) = 0
     \/ Differs(a) = 1 /\ a.components = <<"card">>
     \/ /\ Differs(a) = 1
        /\ a.template = "custom"
        /\ a.components \in {<<"button", "card">>, <<"button", "button">>}
        /\ a.target.exists = a.target.isDir
        /\ a.target.exists = a.target.writable
        /\ ~validateInputs(a, FALSE, Absent).valid}

InitWith(d, c, f) ==
  /\ pc = "stopped"
  /\ exitCode = -1
  /\ stop = "none"
  /\ dirExists = d
  /\ ckpt = c
  /\ tmp = Absent
  /\ files = f
  /\ state = NoState
  /\ loaded = NoState
  /\ result = NoResult
  /\ invoked = {}
  /\ firstCmd = "none"
  /\ persisted = {}
  /\ spawnErrors = {}
  /\ itemCmds = 0
  /\ op = Op("none")
  /\ elapsed = 0
  /\ installed = <<>>
  /\ failed = <<>>
  /\ idx = 0

\* nothing at the project path
Init == InitWith(FALSE, Absent, {})

(* ---------------- how a process stops ---------------- *)

\* the locals of the step functions, as they are when a process starts and
\* after it has ended
ProcessEnds ==
  /\ result' = NoResult
  /\ elapsed' = 0
  /\ installed' = <<>>
  /\ failed' = <<>>
  /\ idx' = 0

\* process.exit(code)
Exit(code, why) ==
  /\ pc' = "stopped"
  /\ exitCode' = code
  /\ stop' = why
  /\ ProcessEnds

\* the process dies without running any more code: nothing of it is left
\* but the disk
Die ==
  /\ pc' = "stopped"
  /\ exitCode' = -1
  /\ stop' = "crash"
  /\ ProcessEnds
  /\ state' = NoState
  /\ loaded' = NoState
  /\ invoked' = {}
  /\ firstCmd' = "none"
  /\ persisted' = {}
  /\ spawnErrors' = {}
  /\ itemCmds' = 0

\* an external command of stepName is spawned
Spawn(stepName) ==
  /\ invoked' = invoked \cup {stepName}
  /\ firstCmd' = IF firstCmd = "none" THEN stepName ELSE firstCmd
  /\ UNCHANGED <<spawnErrors, itemCmds>>

\* the command of one item of the fallback loop is spawned
SpawnItem ==
  /\ invoked' = invoked \cup {"componentInstall"}
  /\ itemCmds' = itemCmds + 1
  /\ UNCHANGED <<firstCmd, spawnErrors>>

\* updateStep(state, projectPath, stepName, status, extra), with newState the
\* state after its assignments, followed by the statements up to the next
\* await or filesystem call: go to line next (spawning the command of step
\* spawn on the way, if any), or exit there with code/why
UpdateStep(newState, stepName, next, spawn, code, why) ==
  \E o \in saveState(dirExists, ckpt, tmp, newState) :
    /\ ckpt' = o.ckpt
    /\ tmp' = o.tmp
    /\ op' = SaveOp(o.at, newState)
    /\ UNCHANGED <<dirExists, files>>
    /\ IF o.res = "crashed" THEN Die
       ELSE /\ state' = newState
            /\ persisted' = persisted \cup {stepName}
            /\ loaded' = loaded
            /\ IF o.res = "threw"
                 THEN Exit(EXIT_FAILURE, "exception") /\ UNCHANGED <<invoked, firstCmd, spawnErrors, itemCmds>>
               ELSE IF next = "stopped"
                 THEN Exit(code, why) /\ UNCHANGED <<invoked, firstCmd, spawnErrors, itemCmds>>
               ELSE /\ pc' = next
                    /\ IF spawn # "none" THEN Spawn(spawn) ELSE UNCHANGED <<invoked, firstCmd, spawnErrors, itemCmds>>
                    /\ UNCHANGED <<exitCode, stop, result, installer>>

\* a statement that touches neither the disk nor the state object
Goto(next) ==
  /\ pc' = next
  /\ op' = Op("none")
  /\ UNCHANGED <<exitCode, stop, disk, state, loaded, result, persisted, installer>>

\* cleanup(projectPath): fs.rmSync(projectPath, {recursive, force})
Cleanup ==
  /\ dirExists' = FALSE
  /\ ckpt' = Absent
  /\ tmp' = Absent
  /\ files' = {}

\* whether the failure branch of a step calls cleanup (lines 260, 281, 299)
CleanupOnFailure_always(stepName, freshCreation) == TRUE

CleanupOnFailure(stepName, freshCreation) ==
  IF stepName = "viteCreate" THEN TRUE ELSE freshCreation

\* the end of a failure branch: cleanup if the branch calls it, printSummary, exit
FailureExit_zero(stepName, finalState) ==
  /\ IF CleanupOnFailure(stepName, finalState.freshCreation)
       THEN Cleanup /\ op' = Op("cleanup")
       ELSE UNCHANGED disk /\ op' = Op("none")
  /\ state' = finalState
  /\ Exit(EXIT_SUCCESS, stepName)
  /\ UNCHANGED <<loaded, run>>

FailureExit(stepName, finalState) ==
  /\ IF CleanupOnFailure(stepName, finalState.freshCreation)
       THEN Cleanup /\ op' = Op("cleanup")
       ELSE UNCHANGED disk /\ op' = Op("none")
  /\ state' = finalState
  /\ Exit(EXIT_FAILURE, stepName)
  /\ UNCHANGED <<loaded, run>>

(* ---------------- main(), lines 198-249 ---------------- *)

\* the test at the head of each step: if (state.steps.<step> !== 'done')
ShouldRun_always(steps, stepName) == TRUE

ShouldRun(steps, stepName) == steps[stepName] # "done"

\* parse the arguments, validate, create or load the state
Start_overrides(args) ==
  /\ pc = "stopped"
  /\ LET v == validateInputs(args, dirExists, ckpt)
     IN IF ~v.valid
          THEN /\ state' = NoState
               /\ loaded' = NoState
               /\ Exit(EXIT_FAILURE, "validation")
        ELSE IF Truthy(v.existingState)
          THEN IF v.existingState = JsonEmptyObject
                 \* Object.entries(state.steps) throws on an object without
                 \* steps; main().catch exits
                 THEN /\ state' = NoState
                      /\ loaded' = v.existingState
                      /\ Exit(EXIT_FAILURE, "exception")
                 ELSE /\ state' = [v.existingState EXCEPT !.freshCreation = FALSE,
                                                      !.components = v.resolvedComponents]
                      /\ loaded' = v.existingState
                      /\ pc' = "L252"
                      /\ exitCode' = -1
                      /\ stop' = "running"
        ELSE /\ state' = createInitialState(args.projectName, args.template, v.resolvedComponents)
             /\ loaded' = NoState
             /\ pc' = "L252"
             /\ exitCode' = -1
             /\ stop' = "running"
  /\ ProcessEnds
  /\ invoked' = {}
  /\ firstCmd' = "none"
  /\ persisted' = {}
  /\ spawnErrors' = {}
  /\ itemCmds' = 0
  /\ op' = ValidateOp(args)
  /\ UNCHANGED disk

Start(args) ==
  /\ pc = "stopped"
  /\ LET v == validateInputs(args, dirExists, ckpt)
     IN IF ~v.valid
          THEN /\ state' = NoState
               /\ loaded' = NoState
               /\ Exit(EXIT_FAILURE, "validation")
        ELSE IF Truthy(v.existingState)
          THEN IF v.existingState = JsonEmptyObject
                 \* Object.entries(state.steps) throws on an object without
                 \* steps; main().catch exits
                 THEN /\ state' = NoState
                      /\ loaded' = v.existingState
                      /\ Exit(EXIT_FAILURE, "exception")
                 ELSE /\ state' = [v.existingState EXCEPT !.freshCreation = FALSE]
                      /\ loaded' = v.existingState
                      /\ pc' = "L252"
                      /\ exitCode' = -1
                      /\ stop' = "running"
        ELSE /\ state' = createInitialState(args.projectName, args.template, v.resolvedComponents)
             /\ loaded' = NoState
             /\ pc' = "L252"
             /\ exitCode' = -1
             /\ stop' = "running"
  /\ ProcessEnds
  /\ invoked' = {}
  /\ firstCmd' = "none"
  /\ persisted' = {}
  /\ spawnErrors' = {}
  /\ itemCmds' = 0
  /\ op' = ValidateOp(args)
  /\ UNCHANGED disk

(* ---------------- step 4a, lines 252-269 ---------------- *)

L252 ==
  /\ pc = "L252"
  /\ IF ShouldRun(state.steps, "viteCreate")
       THEN Goto("awaitVite") /\ Spawn("viteCreate")
       ELSE Goto("L272") /\ UNCHANGED <<invoked, firstCmd, spawnErrors, itemCmds>>

\* create-vite makes the project directory while it runs
ViteMakesDir ==
  /\ pc = "awaitVite"
  /\ ~dirExists
  /\ dirExists' = TRUE
  /\ op' = Op("external")
  /\ UNCHANGED <<pc, exitCode, stop, ckpt, tmp, files, state, loaded, result, run, installer>>

\* the command ends; createViteProject returns
ViteReturns(b, out) ==
  /\ pc = "awaitVite"
  /\ LET r == runCommand(b, TIMEOUT_viteCreate)
         made == IF r.rejected THEN {} ELSE out
     IN /\ dirExists' = (dirExists \/ made # {})
        /\ files' = files \cup made
        /\ result' = createViteProject(r, files')
        /\ op' = ExternalOp(r)
        /\ spawnErrors' = IF r.rejected THEN spawnErrors \cup {"viteCreate"} ELSE spawnErrors
  /\ pc' = "L256"
  /\ UNCHANGED <<exitCode, stop, ckpt, tmp, state, loaded, invoked, firstCmd, persisted, itemCmds,
                 installer>>

L256 ==
  /\ pc = "L256"
  /\ IF ~result.success
       THEN FailureExit("viteCreate",
                        [SetStep(state, "viteCreate", "failed") EXCEPT !.error = result.error])
       ELSE UpdateStep(SetStep(state, "viteCreate", "done"), "viteCreate", "L272", "none", 0, "")

(* ---------------- step 4b, lines 272-287 ---------------- *)

L272 ==
  /\ pc = "L272"
  /\ IF ShouldRun(state.steps, "npmInstall")
       THEN UpdateStep(SetStep(state, "npmInstall", "running"), "npmInstall",
                       "awaitNpm", "npmInstall", 0, "")
       ELSE Goto("L290") /\ UNCHANGED <<invoked, firstCmd, spawnErrors, itemCmds>>

NpmReturns(b, out) ==
  /\ pc = "awaitNpm"
  /\ LET r == runCommand(b, TIMEOUT_npmInstall)
     IN /\ files' = files \cup (IF r.rejected THEN {} ELSE out)
        /\ result' = npmInstall(r, files')
        /\ op' = ExternalOp(r)
        /\ spawnErrors' = IF r.rejected THEN spawnErrors \cup {"npmInstall"} ELSE spawnErrors
  /\ pc' = "L277"
  /\ UNCHANGED <<exitCode, stop, dirExists, ckpt, tmp, state, loaded, invoked, firstCmd, persisted,
                 itemCmds, installer>>

L277 ==
  /\ pc = "L277"
  /\ IF ~result.success
       THEN UpdateStep([SetStep(state, "npmInstall", "failed") EXCEPT !.error = result.error],
                       "npmInstall", "L281", "none", 0, "")
       ELSE UpdateStep(SetStep(state, "npmInstall", "done"), "npmInstall", "L290", "none", 0, "")

L281 ==
  /\ pc = "L281"
  /\ FailureExit("npmInstall", state)

(* ---------------- step 4c, lines 290-305 ---------------- *)

L290 ==
  /\ pc = "L290"
  /\ IF ShouldRun(state.steps, "shadcnInit")
       THEN UpdateStep(SetStep(state, "shadcnInit", "running"), "shadcnInit",
                       "awaitInit", "shadcnInit", 0, "")
       ELSE Goto("L308") /\ UNCHANGED <<invoked, firstCmd, spawnErrors, itemCmds>>

InitReturns(b, out) ==
  /\ pc = "awaitInit"
  /\ LET r == runCommand(b, TIMEOUT_shadcnInit)
     IN /\ files' = files \cup (IF r.rejected THEN {} ELSE out)
        /\ result' = initShadcn(r)
        /\ op' = ExternalOp(r)
        /\ spawnErrors' = IF r.rejected THEN spawnErrors \cup {"shadcnInit"} ELSE spawnErrors
  /\ pc' = "L295"
  /\ UNCHANGED <<exitCode, stop, dirExists, ckpt, tmp, state, loaded, invoked, firstCmd, persisted,
                 itemCmds, installer>>

L295 ==
  /\ pc = "L295"
  /\ IF ~result.success
       THEN UpdateStep([SetStep(state, "shadcnInit", "failed") EXCEPT !.error = result.error],
                       "shadcnInit", "L299", "none", 0, "")
       ELSE UpdateStep(SetStep(state, "shadcnInit", "done"), "shadcnInit", "L308", "none", 0, "")

L299 ==
  /\ pc = "L299"
  /\ FailureExit("shadcnInit", state)

(* ---------------- step 4d, lines 308-321, and installComponents ---------------- *)

Min(a, b) == IF a <= b THEN a ELSE b

L308_retriesFailed ==
  /\ pc = "L308"
  /\ IF ShouldRun(state.steps, "componentInstall") \/ state.failedComponents # <<>>
       THEN IF Len(state.components) = 0
              THEN UpdateStep(SetStep(state, "componentInstall", "running"), "componentInstall",
                              "L313", "none", 0, "")
              ELSE UpdateStep(SetStep(state, "componentInstall", "running"), "componentInstall",
                              "awaitBatch", "componentInstall", 0, "")
       ELSE Goto("L324") /\ UNCHANGED <<invoked, firstCmd, spawnErrors, itemCmds>>

L308 ==
  /\ pc = "L308"
  /\ IF ShouldRun(state.steps, "componentInstall")
       THEN IF Len(state.components) = 0
              THEN UpdateStep(SetStep(state, "componentInstall", "running"), "componentInstall",
                              "L313", "none", 0, "")
              ELSE UpdateStep(SetStep(state, "componentInstall", "running"), "componentInstall",
                              "awaitBatch", "componentInstall", 0, "")
       ELSE Goto("L324") /\ UNCHANGED <<invoked, firstCmd, spawnErrors, itemCmds>>

\* the batch command ends (lines 232-254)
BatchReturns_fallsThrough(b, writes) ==
  /\ pc = "awaitBatch"
  /\ LET r == runCommand(b, TIMEOUT_componentInstall)
     IN /\ elapsed' = r.time
        /\ op' = ExternalOp(r)
        /\ spawnErrors' = IF r.rejected THEN spawnErrors \cup {"componentInstall"} ELSE spawnErrors
        /\ files' = files \cup (IF r.rejected \/ ~writes THEN {} ELSE AddOutputs(state.components))
        /\ IF ~r.rejected /\ r.code = "zero"
             THEN /\ installed' = state.components
                  /\ idx' = 1
                  /\ pc' = "L257"
             ELSE /\ installed' = installed
                  /\ idx' = 1
                  /\ pc' = "L257"
  /\ UNCHANGED <<exitCode, stop, dirExists, ckpt, tmp, state, loaded, result, invoked, firstCmd,
                 persisted, itemCmds, failed>>

BatchReturns(b, writes) ==
  /\ pc = "awaitBatch"
  /\ LET r == runCommand(b, TIMEOUT_componentInstall)
     IN /\ elapsed' = r.time
        /\ op' = ExternalOp(r)
        /\ spawnErrors' = IF r.rejected THEN spawnErrors \cup {"componentInstall"} ELSE spawnErrors
        /\ files' = files \cup (IF r.rejected \/ ~writes THEN {} ELSE AddOutputs(state.components))
        /\ IF ~r.rejected /\ r.code = "zero"
             THEN /\ installed' = state.components
                  /\ idx' = idx
                  /\ pc' = "L313"
             ELSE /\ installed' = installed
                  /\ idx' = 1
                  /\ pc' = "L257"
  /\ UNCHANGED <<exitCode, stop, dirExists, ckpt, tmp, state, loaded, result, invoked, firstCmd,
                 persisted, itemCmds, failed>>

\* one pass through the head of the fallback loop (lines 257-281)
L257 ==
  /\ pc = "L257"
  /\ IF idx > Len(state.components)
       THEN /\ pc' = "L313"
            /\ UNCHANGED <<failed, idx, invoked, firstCmd, spawnErrors, itemCmds>>
     ELSE IF TIMEOUT_componentInstall - elapsed <= RESERVE
       THEN /\ failed' = Append(failed, state.components[idx])
            /\ idx' = idx + 1
            /\ pc' = "L257"
            /\ UNCHANGED <<invoked, firstCmd, spawnErrors, itemCmds>>
     ELSE /\ pc' = "awaitItem"
          /\ SpawnItem
          /\ UNCHANGED <<failed, idx>>
  /\ op' = Op("none")
  /\ UNCHANGED <<exitCode, stop, disk, state, loaded, result, persisted, elapsed, installed>>

\* the command of one item ends (lines 283-293)
ItemReturns_retries(b, writes) ==
  /\ pc = "awaitItem"
  /\ LET remaining == TIMEOUT_componentInstall - elapsed
         perComponentTimeout == Min(PER_COMPONENT_CAP, remaining)
         r == runCommand(b, perComponentTimeout)
     IN /\ elapsed' = elapsed + r.time
        /\ op' = ExternalOp(r)
        /\ spawnErrors' = IF r.rejected THEN spawnErrors \cup {"componentInstall"} ELSE spawnErrors
        /\ files' = files \cup (IF r.rejected \/ ~writes THEN {}
                                 ELSE AddOutputs(<<state.components[idx]>>))
        /\ IF ~r.rejected /\ r.code = "zero"
             THEN installed' = Append(installed, state.components[idx]) /\ failed' = failed
             ELSE failed' = failed /\ installed' = installed
  /\ idx' = IF runCommand(b, Min(PER_COMPONENT_CAP, TIMEOUT_componentInstall - elapsed)).code = "zero"
             THEN idx + 1 ELSE idx
  /\ pc' = "L257"
  /\ UNCHANGED <<exitCode, stop, dirExists, ckpt, tmp, state, loaded, result, invoked, firstCmd,
                 persisted, itemCmds>>

ItemReturns(b, writes) ==
  /\ pc = "awaitItem"
  /\ LET remaining == TIMEOUT_componentInstall - elapsed
         perComponentTimeout == Min(PER_COMPONENT_CAP, remaining)
         r == runCommand(b, perComponentTimeout)
     IN /\ elapsed' = elapsed + r.time
        /\ op' = ExternalOp(r)
        /\ spawnErrors' = IF r.rejected THEN spawnErrors \cup {"componentInstall"} ELSE spawnErrors
        /\ files' = files \cup (IF r.rejected \/ ~writes THEN {}
                                 ELSE AddOutputs(<<state.components[idx]>>))
        /\ IF ~r.rejected /\ r.code = "zero"
             THEN installed' = Append(installed, state.components[idx]) /\ failed' = failed
             ELSE failed' = Append(failed, state.components[idx]) /\ installed' = installed
  /\ idx' = idx + 1
  /\ pc' = "L257"
  /\ UNCHANGED <<exitCode, stop, dirExists, ckpt, tmp, state, loaded, result, invoked, firstCmd,
                 persisted, itemCmds>>

L313_fatal ==
  /\ pc = "L313"
  /\ IF failed # <<>>
       THEN UpdateStep([SetStep(state, "componentInstall", "failed") EXCEPT
                          !.installedComponents = installed, !.failedComponents = failed],
                       "componentInstall", "stopped", "none", EXIT_FAILURE, "componentInstall")
       ELSE UpdateStep([SetStep(state, "componentInstall", "done") EXCEPT
                          !.installedComponents = installed, !.failedComponents = failed],
                       "componentInstall", "L324", "none", 0, "")

L313 ==
  /\ pc = "L313"
  /\ UpdateStep([SetStep(state, "componentInstall", "done") EXCEPT
                   !.installedComponents = installed, !.failedComponents = failed],
                "componentInstall", "L324", "none", 0, "")

(* ---------------- step 4e, lines 324-347, and step 5 ---------------- *)

L324 ==
  /\ pc = "L324"
  /\ IF ShouldRun(state.steps, "verification")
       THEN UpdateStep(SetStep(state, "verification", "running"), "verification",
                       "L328", "none", 0, "")
       ELSE Goto("L356") /\ UNCHANGED <<invoked, firstCmd, spawnErrors, itemCmds>>

L328 ==
  /\ pc = "L328"
  /\ LET verifyResult == verifyProject(files, state.installedComponents)
     IN IF ~verifyResult.valid
          THEN UpdateStep([SetStep(state, "verification", "failed") EXCEPT
                             !.error = Err("Verification failed. Missing", verifyResult.missing)],
                          "verification", "stopped", "none", EXIT_FAILURE, "verification")
          ELSE UpdateStep(SetStep(state, "verification", "done"), "verification",
                          "L356", "none", 0, "")

\* removeState, printSummary, exit
L356 ==
  /\ pc = "L356"
  /\ ckpt' = removeState(ckpt)
  /\ op' = Op("removeState")
  /\ Exit(EXIT_SUCCESS, "success")
  /\ UNCHANGED <<dirExists, tmp, files, state, loaded, run>>

(* ---------------- the signal handler, lines 170-190 ---------------- *)

Signals == {"SIGINT", "SIGTERM"}

\* the steps after the handler's relabelling (lines 175-179)
Relabel_notDone(steps) ==
  [k \in StepNames |-> IF steps[k] # "done" THEN "failed" ELSE steps[k]]

Relabel(steps) == [k \in StepNames |-> IF steps[k] = "running" THEN "failed" ELSE steps[k]]

\* a signal is delivered while main is suspended in an await
Interrupt(signal) ==
  /\ pc \in AwaitPcs
  /\ LET s == [state EXCEPT !.steps = Relabel(state.steps),
                            !.error = Err("Interrupted by", <<signal>>)]
     IN \E o \in saveState(dirExists, ckpt, tmp, s) :
          /\ op' = SaveOp(o.at, s)
          /\ IF o.res = "crashed"
               THEN /\ Die
                    /\ ckpt' = o.ckpt
                    /\ tmp' = o.tmp
                    /\ UNCHANGED <<dirExists, files>>
               ELSE /\ ckpt' = o.ckpt
                    /\ tmp' = o.tmp
                    /\ UNCHANGED <<dirExists, files>>
                    /\ state' = s
                    /\ Exit(EXIT_FAILURE, "interrupt")
                    /\ UNCHANGED <<loaded, run>>

(* ---------------- a crash ---------------- *)

Crash ==
  /\ pc # "stopped"
  /\ Die
  /\ op' = Op("none")
  /\ UNCHANGED disk

(* ---------------- the specification ---------------- *)

Next ==
  \/ \E args \in Invocations : Start(args)
  \/ L252
  \/ ViteMakesDir
  \/ \E b \in Behaviours, out \in ViteOutputs : ViteReturns(b, out)
  \/ L256
  \/ L272
  \/ \E b \in Behaviours, out \in NpmOutputs : NpmReturns(b, out)
  \/ L277
  \/ L281
  \/ L290
  \/ \E b \in Behaviours, out \in InitOutputs : InitReturns(b, out)
  \/ L295
  \/ L299
  \/ L308
  \/ \E b \in Behaviours, writes \in BOOLEAN : BatchReturns(b, writes)
  \/ L257
  \/ \E b \in Behaviours, writes \in BOOLEAN : ItemReturns(b, writes)
  \/ L313
  \/ L324
  \/ L328
  \/ L356
  \/ \E signal \in Signals : Interrupt(signal)
  \/ Crash

Spec == Init /\ [][Next]_vars

\* The same program started on a disk on which something is already at the
\* project path: a directory without a checkpoint, or a directory with a
\* checkpoint file this program did not write.
FutureState ==
  [createInitialState("my-app", "custom", <<"card">>) EXCEPT !.version = 2, !.steps["viteCreate"] = "done"]

PreexistingCheckpoints == {Garbage, Json(JsonNull), Json(JsonEmptyObject), Json(FutureState)}

InitPre ==
  \/ InitWith(TRUE, Absent, {})
  \/ \E c \in PreexistingCheckpoints : InitWith(TRUE, c, {"package.json", "src", "vite.config.ts"})

SpecPre == InitPre /\ [][Next]_vars

(* ---------------- installComponents as a function (lines 219-297) ---------------- *)

\* installComponents(projectPath, components, timeout) as a function of its
\* arguments and of what the commands it runs do: batch is the behaviour of
\* the batch command and items[i] the behaviour of the command of
\* components[i], should it be run.  attempted (not a field of the source's
\* result) lists the names a per-item command was run for, elapsed is
\* Date.now() - startTime at the return.

\* if (remaining <= 5000), lines 258-261
BudgetExhausted_noReserve(timeout, elapsed_) == timeout - elapsed_ <= 0
BudgetExhausted(timeout, elapsed_) == timeout - elapsed_ <= RESERVE

\* failed.push(name); continue, lines 263-264
SkipItem_dropped(acc, name) == acc
SkipItem(acc, name) == [acc EXCEPT !.failed = Append(@, name)]

\* lines 267-293: the command of one item is run and its outcome recorded;
\* timeouts (not a field of the source's result) lists the timeouts the
\* per-item commands were given
AttemptItem_uncapped(acc, name, b, timeout) ==
  LET remaining == timeout - acc.elapsed
      perComponentTimeout == remaining
      r == runCommand(b, perComponentTimeout)
      ran == [acc EXCEPT !.elapsed = @ + r.time, !.attempted = Append(@, name),
                         !.timeouts = Append(@, perComponentTimeout)]
  IN IF ~r.rejected /\ r.code = "zero"
       THEN [ran EXCEPT !.installed = Append(@, name)]
       ELSE [ran EXCEPT !.failed = Append(@, name)]

AttemptItem(acc, name, b, timeout) ==
  LET remaining == timeout - acc.elapsed
      perComponentTimeout == Min(PER_COMPONENT_CAP, remaining)
      r == runCommand(b, perComponentTimeout)
      ran == [acc EXCEPT !.elapsed = @ + r.time, !.attempted = Append(@, name),
                         !.timeouts = Append(@, perComponentTimeout)]
  IN IF ~r.rejected /\ r.code = "zero"
       THEN [ran EXCEPT !.installed = Append(@, name)]
       ELSE [ran EXCEPT !.failed = Append(@, name)]

\* for (const name of components), lines 257-294, from position i on
RECURSIVE FallbackLoop(_, _, _, _, _)
FallbackLoop_attemptsFirst(components, timeout, items, i, acc) ==
  IF i > Len(components) THEN acc
  ELSE IF i > 1 /\ BudgetExhausted(timeout, acc.elapsed)
    THEN FallbackLoop(components, timeout, items, i + 1, SkipItem(acc, components[i]))
  ELSE FallbackLoop(components, timeout, items, i + 1,
                    AttemptItem(acc, components[i], items[i], timeout))
FallbackLoop(components, timeout, items, i, acc) ==
  IF i > Len(components) THEN acc
  ELSE IF BudgetExhausted(timeout, acc.elapsed)
    THEN FallbackLoop(components, timeout, items, i + 1, SkipItem(acc, components[i]))
  ELSE FallbackLoop(components, timeout, items, i + 1,
                    AttemptItem(acc, components[i], items[i], timeout))

installComponents_successAlways(components, timeout, batch, items) ==
  IF Len(components) = 0
    THEN [success |-> TRUE, installed |-> <<>>, failed |-> <<>>, attempted |-> <<>>, timeouts |-> <<>>,
          elapsed |-> 0]
  ELSE LET r == runCommand(batch, timeout)
       IN IF ~r.rejected /\ r.code = "zero"
            THEN [success |-> TRUE, installed |-> components, failed |-> <<>>,
                  attempted |-> <<>>, timeouts |-> <<>>, elapsed |-> r.time]
          ELSE LET acc == FallbackLoop(components, timeout, items, 1,
                                       [installed |-> <<>>, failed |-> <<>>,
                                        attempted |-> <<>>, timeouts |-> <<>>, elapsed |-> r.time])
               IN [success |-> TRUE, installed |-> acc.installed,
                   failed |-> acc.failed, attempted |-> acc.attempted,
                   timeouts |-> acc.timeouts, elapsed |-> acc.elapsed]

installComponents(components, timeout, batch, items) ==
  IF Len(components) = 0
    THEN [success |-> TRUE, installed |-> <<>>, failed |-> <<>>, attempted |-> <<>>, timeouts |-> <<>>,
          elapsed |-> 0]
  ELSE LET r == runCommand(batch, timeout)
       IN IF ~r.rejected /\ r.code = "zero"
            THEN [success |-> TRUE, installed |-> components, failed |-> <<>>,
                  attempted |-> <<>>, timeouts |-> <<>>, elapsed |-> r.time]
          ELSE LET acc == FallbackLoop(components, timeout, items, 1,
                                       [installed |-> <<>>, failed |-> <<>>,
                                        attempted |-> <<>>, timeouts |-> <<>>, elapsed |-> r.time])
               IN [success |-> acc.failed = <<>>, installed |-> acc.installed,
                   failed |-> acc.failed, attempted |-> acc.attempted,
                   timeouts |-> acc.timeouts, elapsed |-> acc.elapsed]

\* The calls of installComponents that are checked: the first n names of
\* ItemPool, a total timeout, a batch command, and per-item commands that
\* each take the same time and end in any of the three ways.
ItemPool == <<"button", "card", "badge", "input", "label", "table", "tabs">>
InstallerTimeouts == {TIMEOUT_componentInstall, 245000, 100000, 20000}
AttemptTimes == {1000, 21000, 24000, 70000}
InstallerInputs ==
  UNION {[components : {SubSeq(ItemPool, 1, n)},
          timeout : InstallerTimeouts,
          batch : Behaviours,
          items : {[i \in 1..n |-> [exit |-> e[i], dur |-> t]] :
                     e \in [1..n -> {"zero", "nonzero", "spawnError"}], t \in AttemptTimes}]
           : n \in 0..MaxItems}

\* installComponents is about to be called with inputs
InstallOp(inputs) == [name |-> "installComponents", at |-> "", arg |-> inputs]

InitInstaller ==
  \E inputs \in InstallerInputs :
    /\ pc = "L311"
    /\ exitCode = -1
    /\ stop = "running"
    /\ dirExists = TRUE
    /\ ckpt = Absent
    /\ tmp = Absent
    /\ files = {}
    /\ state = NoState
    /\ loaded = NoState
    /\ result = NoResult
    /\ invoked = {}
    /\ firstCmd = "none"
    /\ persisted = {}
    /\ spawnErrors = {}
    /\ itemCmds = 0
    /\ op = InstallOp(inputs)
    /\ elapsed = 0
    /\ installed = <<>>
    /\ failed = <<>>
    /\ idx = 0

\* the call returns
CallInstaller ==
  /\ pc = "L311"
  /\ op.name = "installComponents"
  /\ result' = installComponents(op.arg.components, op.arg.timeout, op.arg.batch, op.arg.items)
  /\ pc' = "L313"
  /\ UNCHANGED <<exitCode, stop, disk, state, loaded, run, op, installer>>

NextInstaller == CallInstaller
SpecInstaller == InitInstaller /\ [][NextInstaller]_vars

\* The end-to-end scenario: the command is run for project my-app with
\* template minimal.  Every command may behave in any way, except that the
\* per-item commands of the fallback loop take one second.
E2EArgs ==
  [projectName |-> "my-app", template |-> "minimal", components |-> <<>>,
   target |-> [exists |-> TRUE, isDir |-> TRUE, writable |-> TRUE]]

QuickBehaviours == {b \in Behaviours : b.dur = 1000}

NextE2E ==
  \/ Start(E2EArgs)
  \/ L252
  \/ ViteMakesDir
  \/ \E b \in Behaviours, out \in ViteOutputs : ViteReturns(b, out)
  \/ L256
  \/ L272
  \/ \E b \in Behaviours, out \in NpmOutputs : NpmReturns(b, out)
  \/ L277
  \/ L281
  \/ L290
  \/ \E b \in Behaviours, out \in InitOutputs : InitReturns(b, out)
  \/ L295
  \/ L299
  \/ L308
  \/ \E b \in Behaviours, writes \in BOOLEAN : BatchReturns(b, writes)
  \/ L257
  \/ \E b \in QuickBehaviours : ItemReturns(b, TRUE)
  \/ L313
  \/ L324
  \/ L328
  \/ L356
  \/ \E signal \in Signals : Interrupt(signal)
  \/ Crash

SpecE2E == Init /\ [][NextE2E]_vars

\* The pipeline with its scheduling, for the invocation
\* `my-app --template custom --components button,card`: a statement of main
\* that can run does run, and a command that was spawned ends (it exits,
\* cannot be launched, or is killed at its timeout).  A command takes a
\* second or longer than every timeout.  Signals and crashes may or may not
\* happen.
LiveArgs ==
  [projectName |-> "my-app", template |-> "custom", components |-> <<"button", "card">>,
   target |-> [exists |-> TRUE, isDir |-> TRUE, writable |-> TRUE]]
LiveBehaviours == {b \in Behaviours : b.dur \in {1000, 300000}}

Run ==
  \/ L252
  \/ \E b \in LiveBehaviours, out \in ViteOutputs : ViteReturns(b, out)
  \/ L256
  \/ L272
  \/ \E b \in LiveBehaviours, out \in NpmOutputs : NpmReturns(b, out)
  \/ L277
  \/ L281
  \/ L290
  \/ \E b \in LiveBehaviours, out \in InitOutputs : InitReturns(b, out)
  \/ L295
  \/ L299
  \/ L308
  \/ \E b \in LiveBehaviours : BatchReturns(b, TRUE)
  \/ L257
  \/ \E b \in LiveBehaviours : ItemReturns(b, TRUE)
  \/ L313
  \/ L324
  \/ L328
  \/ L356

NextLive ==
  \/ Start(LiveArgs)
  \/ ViteMakesDir
  \/ Run
  \/ \E signal \in Signals : Interrupt(signal)
  \/ Crash

SpecLive == Init /\ [][NextLive]_vars /\ WF_vars(Run)

(* ======================= the claims ======================= *)

Exited == pc = "stopped" /\ stop \notin {"none", "crash"}
AllDone(steps) == \A k \in StepNames : steps[k] = "done"
CheckpointExists == ckpt.kind # "absent"

\* C1: whatever saveState call is made and wherever the process dies inside
\* it, the canonical checkpoint file afterwards is the file as it was before
\* the call or the complete text of the state the call was given; it is
\* never a torn text, and never absent when it existed before.
C1_SaveIsAtomic ==
  [][op'.name = "saveState" =>
       /\ ckpt' = ckpt \/ ckpt' = Serialize(op'.arg)
       /\ ckpt'.kind # "partial"
       /\ ckpt.kind # "absent" => ckpt'.kind # "absent"]_vars

\* the process died between the temp write and the rename, while an earlier
\* checkpoint was in place: the earlier checkpoint is what is on disk
C1_Witness ==
  /\ stop = "crash"
  /\ op.name = "saveState"
  /\ op.at = "before-rename"
  /\ tmp = Serialize(op.arg)
  /\ ckpt.kind = "json"
  /\ ckpt # tmp

\* C2: in a run resumed from a checkpoint no command is spawned and no
\* updateStep is made for a step the checkpoint has as done, and the first
\* command spawned is that of the first step of the fixed order that the
\* checkpoint does not have as done.
C2_ResumeSkipsDone ==
  loaded # NoState =>
    /\ \A k \in StepNames : loaded.steps[k] = "done" => k \notin invoked /\ k \notin persisted
    /\ firstCmd # "none" => firstCmd = STEPS[FirstNotDone(loaded.steps)]

\* resumed from bootstrap done, all others pending: dependency-install ran first
C2_Witness ==
  /\ loaded # NoState
  /\ loaded.steps = [k \in StepNames |-> IF k = "viteCreate" THEN "done" ELSE "pending"]
  /\ firstCmd = "npmInstall"
  /\ "viteCreate" \notin invoked
  /\ pc = "awaitNpm"

\* a valid invocation of the command
GoodArgs ==
  [projectName |-> "my-app", template |-> "custom", components |-> <<"button", "card">>,
   target |-> [exists |-> TRUE, isDir |-> TRUE, writable |-> TRUE]]

\* C3: after an interruption or a crash at any point of a run, a checkpoint
\* is in place whenever the project directory exists, so that running the
\* command again passes validation and resumes.
C3_CheckpointLeftBehind ==
  stop \in {"crash", "interrupt"} =>
    LET v == validateInputs(GoodArgs, dirExists, ckpt)
    IN /\ v.valid
       /\ dirExists => CheckpointExists /\ Truthy(v.existingState)

\* C4: when bootstrap, dependency-install or tool-init fails in a run whose
\* state has freshCreation = false, the project directory is not deleted.
C4_NoCleanupUnlessFresh ==
  (stop \in {"viteCreate", "npmInstall", "shadcnInit"} /\ ~state.freshCreation) => dirExists

\* C5: after a bootstrap failure with freshCreation true the project
\* directory does not exist when the process exits; after a failure of
\* dependency-install, tool-init or verification with freshCreation false it
\* still exists.
C5_CleanupScope ==
  /\ (stop = "viteCreate" /\ state.freshCreation) => ~dirExists
  /\ (stop \in {"npmInstall", "shadcnInit", "verification"} /\ ~state.freshCreation) => dirExists

\* a resumed run failed at tool-init and left the directory and its checkpoint
C5_Witness ==
  /\ stop = "shadcnInit"
  /\ ~state.freshCreation
  /\ state.steps["shadcnInit"] = "failed"
  /\ dirExists
  /\ ckpt = Serialize(state)

\* C6: whenever the process has stopped, the checkpoint file exists iff the
\* project directory exists and the pipeline has not reached overall success.
C6_CheckpointIffDirectory ==
  /\ stop \in {"crash", "interrupt", "exception", "viteCreate", "npmInstall",
               "shadcnInit", "verification"}
       => (CheckpointExists <=> dirExists)
  /\ stop = "success" => ~CheckpointExists

\* C7: a signal delivered at an await point relabels every running step as
\* failed and changes no other status, sets error to the interruption
\* message, attempts one saveState of that state (a failure of it is
\* swallowed), exits non-zero, and leaves the project directory in place.
C7_InterruptHandler ==
  [][(pc \in AwaitPcs /\ stop' = "interrupt") =>
       /\ \A k \in StepNames :
            state'.steps[k] = IF state.steps[k] = "running" THEN "failed" ELSE state.steps[k]
       /\ state'.error.kind = "Interrupted by"
       /\ state'.error.detail \in {<<"SIGINT">>, <<"SIGTERM">>}
       /\ [state' EXCEPT !.steps = state.steps, !.error = state.error] = state
       /\ op'.name = "saveState" /\ op'.arg = state'
       /\ ckpt' = IF dirExists THEN Serialize(state') ELSE ckpt
       /\ exitCode' # EXIT_SUCCESS /\ exitCode' > 0
       /\ dirExists' = dirExists
       /\ files' = files]_vars

\* interrupted in a fresh run after the directory was made: the running step
\* is failed in the checkpoint and the directory is still there
C7_Witness ==
  /\ stop = "interrupt"
  /\ state.freshCreation
  /\ dirExists
  /\ \E k \in StepNames : state.steps[k] = "failed"
  /\ ckpt = Serialize(state)
  /\ exitCode = EXIT_FAILURE

\* a checkpoint file that holds a ScaffoldState of the known version
KnownState(file) ==
  /\ file.kind = "json"
  /\ file.val \notin {JsonNull, JsonEmptyObject}
  /\ file.val.version = 1

\* C8: a run gets past validation only if the checkpoint file at the project
\* path is absent or holds a ScaffoldState of the known version; any other
\* file is neither started afresh from nor resumed from.
C8_CorruptCheckpointRejected ==
  op.name = "validateInputs" /\ pc # "stopped" => ckpt.kind = "absent" \/ KnownState(ckpt)

\* C9: every step that is run is marked running and persisted before its
\* command starts, and no step goes from pending directly to done or failed.
C9_RunningBeforeAction ==
  [][pc # "stopped" /\ state' # NoState =>
       \A k \in StepNames :
         /\ state.steps[k] = "pending" => state'.steps[k] \in {"pending", "running"}
         /\ (k \in invoked' /\ k \notin invoked) =>
              state'.steps[k] = "running" /\ ckpt' = Serialize(state')]_vars

\* C10: the process exits with code 0 exactly when all five steps are done
\* at exit, and with a non-zero code after a validation failure, a failure
\* of bootstrap, dependency-install, tool-init or verification, or an
\* interruption.
C10_ExitCodes ==
  Exited =>
    /\ exitCode = EXIT_SUCCESS <=> (state # NoState /\ AllDone(state.steps))
    /\ stop \in {"validation", "viteCreate", "npmInstall", "shadcnInit", "verification",
                 "interrupt"} => exitCode > 0

\* success with warnings: a component failed to install, exit code 0
C10_Witness ==
  /\ Exited
  /\ exitCode = EXIT_SUCCESS
  /\ state.failedComponents # <<>>
  /\ AllDone(state.steps)

\* the messages the step function of a fatal step can return
FailureMessages(stepName) ==
  IF stepName = "verification"
    THEN {Err("Verification failed. Missing", m) :
            m \in {SelectSeq(BLOCKING, LAMBDA f : f \in keep) : keep \in SUBSET RangeOf(BLOCKING)} \ {<<>>}}
    ELSE {Err(k, <<stepName>>) : k \in {"spawn", "timeout", "exitCode"}}
         \cup {Err("notFound", <<f>>) : f \in {"package.json", "node_modules"}}

C12_InstallerNonFatal ==
  [][((pc = "L313" /\ op'.at = "return") =>
        /\ pc' = "L324"
        /\ state'.steps["componentInstall"] = "done"
        /\ state'.installedComponents = installed
        /\ state'.failedComponents = failed
        /\ ckpt' = Serialize(state')
        /\ ShouldRun(state'.steps, "verification"))
     /\
     ((pc = "L324" /\ "componentInstall" \in persisted /\ stop' = "running") =>
        /\ pc' = "L328"
        /\ state'.steps["verification"] = "running"
        /\ state'.steps["componentInstall"] = "done")]_vars

\* every item failed in the fallback, and the run is at the verification check
C12_Witness ==
  /\ pc = "L328"
  /\ "componentInstall" \in invoked
  /\ state.steps["componentInstall"] = "done"
  /\ state.installedComponents = <<>>
  /\ state.failedComponents = state.components
  /\ ckpt = Serialize(state)

\* C13: at the verification check, if a blocking artifact is missing the
\* step becomes failed with an error listing every missing blocking
\* artifact, the process exits non-zero and the checkpoint and the project
\* directory stay (also when freshCreation is true); if none is missing,
\* whatever non-blocking artifact is, the step becomes done and the run goes
\* on to its successful exit.
C13_VerificationTiers ==
  [][((pc = "L328" /\ op'.at = "return") =>
        IF RangeOf(BLOCKING) \subseteq files
          THEN /\ state'.steps["verification"] = "done"
               /\ pc' = "L356"
          ELSE /\ state'.steps["verification"] = "failed"
               /\ state'.error.kind = "Verification failed. Missing"
               /\ RangeOf(state'.error.detail) = RangeOf(BLOCKING) \ files
               /\ stop' = "verification"
               /\ exitCode' > 0
               /\ ckpt' = Serialize(state')
               /\ dirExists'
               /\ files' = files)
     /\
     ((pc = "L356" /\ stop' # "crash") =>
        /\ stop' = "success"
        /\ exitCode' = EXIT_SUCCESS)]_vars

\* a fresh run failed verification with two blocking artifacts missing: the
\* directory and the checkpoint are still there
C13_Witness ==
  /\ stop = "verification"
  /\ state.freshCreation
  /\ state.error = Err("Verification failed. Missing", <<"src", "vite.config.ts">>)
  /\ dirExists
  /\ ckpt = Serialize(state)
  /\ exitCode = EXIT_FAILURE

\* C14 as stated: a run in which any command could not be spawned, the batch
\* and per-item commands of componentInstall included, exits non-zero and
\* does not reach overall success.
C14_SpawnErrorFatal ==
  (Exited /\ spawnErrors # {}) => (exitCode > 0 /\ stop # "success")

\* C14 amended: a run in which the command of bootstrap, dependency-install
\* or tool-init could not be spawned exits non-zero at that step, with the
\* step failed and the launch error as its message; a launch error of a
\* batch or per-item command of componentInstall is not fatal: the step
\* still ends done and the run goes on to verification and can succeed.
C14_SpawnErrorFatalOutsideInstaller ==
  Exited =>
    /\ spawnErrors \cap {"viteCreate", "npmInstall", "shadcnInit"} # {} =>
         /\ exitCode > 0
         /\ stop \in spawnErrors
         /\ state.steps[stop] = "failed"
         /\ state.error = Err("spawn", <<stop>>)
    /\ (spawnErrors = {"componentInstall"} /\ stop \notin {"interrupt", "exception"}) =>
         /\ state.steps["componentInstall"] = "done"
         /\ stop \in {"success", "verification"}

\* the batch command could not be spawned and the run succeeded
C14_Witness ==
  /\ stop = "success"
  /\ exitCode = EXIT_SUCCESS
  /\ spawnErrors = {"componentInstall"}
  /\ state.failedComponents # <<>>

\* the fields of a state that are set when it is created
Created(s) == [components |-> s.components, template |-> s.template,
               projectName |-> s.projectName, version |-> s.version]

\* C15: no statement of a run changes the components, template or
\* projectName of its state; a resumed run takes them from the checkpoint
\* whatever the invocation passes, and every checkpoint a run writes carries
\* those of its state.
C15_ComponentsImmutable ==
  [][/\ (pc # "stopped" /\ state # NoState /\ state' # NoState) => Created(state') = Created(state)
     /\ (pc = "stopped" /\ pc' = "L252" /\ loaded' # NoState) =>
          /\ Created(state') = Created(loaded')
          /\ ckpt = Serialize(loaded')
     /\ (pc # "stopped" /\ op'.name = "saveState" /\ ckpt' # ckpt) =>
          Created(ckpt'.val) = Created(state)]_vars

\* a run resumed by an invocation that passes another --components list:
\* the state has the checkpoint's list
C15_Witness ==
  /\ pc = "L252"
  /\ loaded # NoState
  /\ op.name = "validateInputs"
  /\ op.arg.components = <<"card">>
  /\ state.components = <<"button", "card">>
  /\ ckpt.val.components = <<"button", "card">>

\* C16: in a fresh run for template minimal, a batch command that exits zero
\* makes every component installed and ends the installer without a per-item
\* command; and when such a run, with no per-item command spawned and no
\* failed component, reaches its last statement, it exits with code 0, the
\* checkpoint is absent, all five steps are done, installedComponents is
\* button, card, badge, input, failedComponents is empty, the blocking
\* artifacts exist and each of the four commands was spawned.
C16_EndToEnd ==
  [][((pc = "awaitBatch" /\ loaded = NoState /\ op'.name = "external" /\ op'.at = "zero") =>
        /\ pc' = "L313"
        /\ installed' = <<"button", "card", "badge", "input">>
        /\ failed' = <<>>
        /\ itemCmds' = 0)
     /\
     ((pc = "L356" /\ stop' # "crash" /\ loaded = NoState /\ itemCmds = 0
         /\ state.failedComponents = <<>>) =>
        /\ stop' = "success"
        /\ exitCode' = EXIT_SUCCESS
        /\ ckpt'.kind = "absent"
        /\ AllDone(state'.steps)
        /\ state'.installedComponents = <<"button", "card", "badge", "input">>
        /\ state'.failedComponents = <<>>
        /\ RangeOf(BLOCKING) \subseteq files'
        /\ invoked' = {"viteCreate", "npmInstall", "shadcnInit", "componentInstall"})]_vars

\* the scenario has run to its end
C16_Witness ==
  /\ stop = "success"
  /\ exitCode = EXIT_SUCCESS
  /\ loaded = NoState
  /\ state.template = "minimal"
  /\ state.installedComponents = <<"button", "card", "badge", "input">>
  /\ state.failedComponents = <<>>
  /\ itemCmds = 0
  /\ ckpt.kind = "absent"
  /\ dirExists

\* The invocations that validation rejects, on every disk of Init and InitPre:
\* main() logs validation.errors and exits (lines 216-223).
RejectedLists == {<<>>, <<"card">>, <<"button", "Tabs">>, <<"Tabs", "Tabs">>}
RejectedInvocations ==
  [projectName : {"my-app", "1app", ""}, template : {"custom", "minimal", "nope"},
   components : RejectedLists, target : Targets]

RejectedStart(args) ==
  /\ ~validateInputs(args, dirExists, ckpt).valid
  /\ Start(args)

InitRejected == Init \/ InitPre
NextRejected == \E args \in RejectedInvocations : RejectedStart(args)
SpecRejected == InitRejected /\ [][NextRejected]_vars

\* C17: when validation is run on an invocation, each violated rule has its
\* own error in the one result whatever else is violated: the project name,
\* the template, the custom component list (empty; or, for a non-empty list,
\* one error per malformed name and one for duplicates) and the target
\* directory (missing; or not a directory; and not writable).  When the
\* result has an error the process exits non-zero, no command has been
\* spawned and the disk is as it was.
C17_Has(errs, e) == \E i \in 1..Len(errs) : errs[i] = e
C17_AllErrorsReported ==
  [][op'.name = "validateInputs" =>
       LET a == op'.arg
           errs == validateInputs(a, dirExists, ckpt).errors
           bad == {i \in 1..Len(a.components) : ~ComponentNameOk(a.components[i])}
       IN /\ a.projectName = "" => C17_Has(errs, "Project name is required.")
          /\ (a.projectName # "" /\ ~ProjectNameOk(a.projectName))
               => C17_Has(errs, "Invalid project name")
          /\ a.template \notin {"minimal", "form", "dashboard", "custom"}
               => C17_Has(errs, "Invalid template")
          /\ (a.template = "custom" /\ a.components = <<>>)
               => C17_Has(errs, "Custom template requires at least one component")
          /\ a.template = "custom"
               => Cardinality({i \in 1..Len(errs) : errs[i] = "Invalid component name"})
                    = Cardinality(bad)
          /\ (a.template = "custom" /\ \E i, j \in 1..Len(a.components) :
                                          i # j /\ a.components[i] = a.components[j])
               => C17_Has(errs, "Duplicate component names detected.")
          /\ ~a.target.exists => C17_Has(errs, "Target directory does not exist")
          /\ (a.target.exists /\ ~a.target.isDir)
               => C17_Has(errs, "Target path is not a directory")
          /\ (a.target.exists /\ ~a.target.writable)
               => C17_Has(errs, "Target directory is not writable")
          /\ errs # <<>> =>
               /\ pc' = "stopped"
               /\ stop' = "validation"
               /\ exitCode' > 0
               /\ invoked' = {}
               /\ firstCmd' = "none"
               /\ UNCHANGED disk]_vars

\* a bad name, two malformed and equal components, a read-only target and an
\* occupied project path are rejected with six errors
C17_Witness ==
  /\ stop = "validation"
  /\ exitCode = EXIT_FAILURE
  /\ op.name = "validateInputs"
  /\ op.arg.projectName = "1app"
  /\ op.arg.components = <<"Tabs", "Tabs">>
  /\ op.arg.template = "custom"
  /\ ~op.arg.target.writable
  /\ dirExists
  /\ ckpt.kind = "absent"
  /\ Len(validateInputs(op.arg, dirExists, ckpt).errors) = 6

\* C18: the result of installComponents, for every list of distinct names
\* and every outcome of the commands, has installed and failed lists without
\* a common name and with names of the input only, and success is true
\* exactly when failed is empty; and in every checkpoint this program wrote
\* installedComponents and failedComponents have no common name and together
\* no more entries than components.
C18_Returned == pc = "L313" /\ op.name = "installComponents"
C18_ResultLists ==
  /\ C18_Returned =>
       /\ RangeOf(result.installed) \cap RangeOf(result.failed) = {}
       /\ RangeOf(result.installed) \cup RangeOf(result.failed) \subseteq RangeOf(op.arg.components)
       /\ result.success <=> (result.failed = <<>>)
       /\ Len(result.installed) + Len(result.failed) <= Len(op.arg.components)
  /\ (ckpt.kind = "json" /\ ckpt.val \notin {JsonNull, JsonEmptyObject}) =>
       /\ RangeOf(ckpt.val.installedComponents) \cap RangeOf(ckpt.val.failedComponents) = {}
       /\ Len(ckpt.val.installedComponents) + Len(ckpt.val.failedComponents)
            <= Len(ckpt.val.components)

\* five items of which some were installed, some failed in an attempt and
\* some were not attempted
C18_Witness ==
  /\ C18_Returned
  /\ Len(op.arg.components) = 5
  /\ ~result.success
  /\ result.installed # <<>>
  /\ Len(result.attempted) > Len(result.installed)
  /\ Len(result.attempted) < 5

\* installComponents has returned from a call with five items of which the
\* batch command failed and every per-item command, if run, takes the time t
C19_FiveItemsBatchFailed ==
  /\ C18_Returned
  /\ Len(op.arg.components) = 5
  /\ LET r == runCommand(op.arg.batch, op.arg.timeout) IN r.rejected \/ r.code # "zero"
  /\ \A i \in 1..5 : op.arg.items[i].exit # "spawnError"
\* from some position on, every item is in failed and had no command run
C19_TrailingSkipped ==
  \E k \in 1..5 : \A i \in k..5 :
    /\ op.arg.components[i] \in RangeOf(result.failed)
    /\ op.arg.components[i] \notin RangeOf(result.attempted)

\* C19 (as stated): with 5 items, a failing batch, total timeout T and
\* attempts of time t each, 5*t > T implies that at least one trailing item is
\* in failed without having been attempted.
C19_BudgetExhaustedWhen5tExceedsT ==
  (C19_FiveItemsBatchFailed /\ 5 * op.arg.items[1].dur > op.arg.timeout)
    => C19_TrailingSkipped

\* C19 (amended): with 5 items, a failing batch that took time b, total
\* timeout T and attempts of time t each, b + 4 * min(t, 60 s) >= T - 5 s
\* implies that at least one trailing item is in failed without having been
\* attempted.
C19_BudgetExhaustedWhenFourAttemptsUseBudget ==
  (C19_FiveItemsBatchFailed
     /\ runCommand(op.arg.batch, op.arg.timeout).time
           + 4 * Min(op.arg.items[1].dur, PER_COMPONENT_CAP) >= op.arg.timeout - RESERVE)
    => C19_TrailingSkipped

\* four attempts of 24 s after a batch of 1 s leave 3 s of 100 s: the fifth
\* item is failed unattempted
C19_Witness ==
  /\ C19_FiveItemsBatchFailed
  /\ op.arg.timeout = 100000
  /\ op.arg.items[1].dur = 24000
  /\ op.arg.batch.dur = 1000
  /\ result.attempted = <<"button", "card", "badge", "input">>
  /\ "label" \in RangeOf(result.failed)
  /\ result.elapsed = 97000

\* the accumulator of the fallback loop when it reaches position i
C20_Before(i) ==
  FallbackLoop(SubSeq(op.arg.components, 1, i - 1), op.arg.timeout, op.arg.items, 1,
               [installed |-> <<>>, failed |-> <<>>, attempted |-> <<>>, timeouts |-> <<>>,
                elapsed |-> runCommand(op.arg.batch, op.arg.timeout).time])
C20_FellBack ==
  /\ C18_Returned
  /\ op.arg.components # <<>>
  /\ LET r == runCommand(op.arg.batch, op.arg.timeout) IN r.rejected \/ r.code # "zero"

\* C20: when the fallback loop reaches an item with at most 5 s of the total
\* timeout left (the time of the batch command and of the earlier attempts
\* counted), that item and every later one is in failed and no command was run
\* for any of them.
C20_ExhaustedItemsFailedUnattempted ==
  C20_FellBack =>
    \A i \in 1..Len(op.arg.components) :
      (op.arg.timeout - C20_Before(i).elapsed <= 5000) =>
        \A j \in i..Len(op.arg.components) :
          /\ op.arg.components[j] \in RangeOf(result.failed)
          /\ op.arg.components[j] \notin RangeOf(result.attempted)
          /\ op.arg.components[j] \notin RangeOf(result.installed)

\* the budget runs out in the second of five attempts
C20_Witness ==
  /\ C20_FellBack
  /\ Len(op.arg.components) = 5
  /\ op.arg.timeout - C20_Before(2).elapsed > 5000
  /\ op.arg.timeout - C20_Before(3).elapsed <= 5000
  /\ result.attempted = <<"button", "card">>
  /\ SubSeq(result.failed, Len(result.failed) - 2, Len(result.failed)) = <<"badge", "input", "label">>

\* the position of a name in the list installComponents was called with
C21_Pos(name) == CHOOSE i \in 1..Len(op.arg.components) : op.arg.components[i] = name
\* what was left of the total timeout when the loop reached position i, and
\* the time the loop spent on position i
C21_Remaining(i) == op.arg.timeout - C20_Before(i).elapsed
C21_Consumed(i) == C20_Before(i + 1).elapsed - C20_Before(i).elapsed

\* C21 (as stated): every attempted item is run with timeout
\* min(60 s, remaining), and its attempt never takes all that remained.
C21_AttemptLeavesBudget ==
  C20_FellBack =>
    \A k \in 1..Len(result.attempted) :
      LET i == C21_Pos(result.attempted[k])
      IN /\ result.timeouts[k] = Min(60000, C21_Remaining(i))
         /\ C21_Consumed(i) < C21_Remaining(i)

\* C21 (amended): every attempted item is run with timeout
\* min(60 s, remaining); its attempt takes no more than that timeout, and so
\* never all that remained while more than 60 s remained.
C21_AttemptTimeoutIsCapped ==
  C20_FellBack =>
    \A k \in 1..Len(result.attempted) :
      LET i == C21_Pos(result.attempted[k])
      IN /\ result.timeouts[k] = Min(60000, C21_Remaining(i))
         /\ C21_Consumed(i) <= result.timeouts[k]
         /\ C21_Remaining(i) > 60000 => C21_Consumed(i) < C21_Remaining(i)

\* an attempt that was cut at the cap with more than the cap remaining, and
\* a later one that was given less than the cap
C21_Witness ==
  /\ C20_FellBack
  /\ Len(result.attempted) >= 2
  /\ C21_Remaining(1) > 60000
  /\ result.timeouts[1] = 60000
  /\ C21_Consumed(1) = 60000
  /\ \E k \in 2..Len(result.attempted) : result.timeouts[k] < 60000

\* C22: when installComponents returns, the time since it started exceeds
\* the total timeout by no more than the time one of its per-item attempts
\* took (and not at all when it made no attempt), for every list, every batch
\* outcome and every per-item outcome.
C22_OvershootBounded ==
  C18_Returned =>
    \/ result.elapsed <= op.arg.timeout
    \/ \E k \in 1..Len(result.attempted) :
         result.elapsed - op.arg.timeout <= C21_Consumed(C21_Pos(result.attempted[k]))

\* five items, of which the attempts used the total timeout to the last
\* millisecond
C22_Witness ==
  /\ C20_FellBack
  /\ Len(op.arg.components) = 5
  /\ Len(result.attempted) >= 2
  /\ result.elapsed = op.arg.timeout

\* the statuses are done up to some step, that step is anything, and every
\* step after a step that is not done is pending
C23_PrefixPattern(steps) ==
  /\ \A i \in 1..Len(STEPS) : steps[STEPS[i]] \in {"pending", "running", "done", "failed"}
  /\ \A i, j \in 1..Len(STEPS) :
       (i < j /\ steps[STEPS[i]] # "done") => steps[STEPS[j]] = "pending"

\* C23: the steps of main's state object, and of every checkpoint on disk,
\* are done up to the first step that is not done; at most that one step is
\* running or failed and every step after it is pending.  This holds in fresh
\* runs, after interrupts and crashes and across resumes.
C23_StepsFormPrefix ==
  /\ state # NoState => C23_PrefixPattern(state.steps)
  /\ ckpt.kind = "json" => C23_PrefixPattern(ckpt.val.steps)

\* a run resumed from an interrupted dependency install has passed it and is
\* in the tool initialization
C23_Witness ==
  /\ loaded # NoState
  /\ loaded.steps["npmInstall"] = "failed"
  /\ loaded.error.kind = "Interrupted by"
  /\ pc = "awaitInit"
  /\ state.steps["npmInstall"] = "done"
  /\ state.steps["shadcnInit"] = "running"
  /\ ckpt = Serialize(state)

\* C24: when the batch command did not exit zero and, at its end, at most
\* 5 s of the total timeout are left (as when it was killed at the total
\* timeout), installComponents runs no per-item command and returns every
\* item as failed.
C24_BatchUsedBudget ==
  (C20_FellBack
     /\ op.arg.timeout - runCommand(op.arg.batch, op.arg.timeout).time <= 5000)
    => /\ result.attempted = <<>>
       /\ result.failed = op.arg.components
       /\ result.installed = <<>>
       /\ ~result.success
       /\ result.elapsed = runCommand(op.arg.batch, op.arg.timeout).time

\* a batch command that exits non-zero 5 s before the total timeout
C24_Witness ==
  /\ C20_FellBack
  /\ Len(op.arg.components) = 5
  /\ op.arg.batch = [exit |-> "nonzero", dur |-> 240000]
  /\ op.arg.timeout = 245000
  /\ result.failed = op.arg.components
  /\ result.attempted = <<>>

\* C25: after the installer has returned in a run the componentInstall step
\* is done in main's state; and a run resumed from a checkpoint in which
\* componentInstall is done spawns no install command, and neither its state
\* nor any checkpoint it writes has installedComponents or failedComponents
\* other than those of the checkpoint it resumed from.
C25_InstallerNotRepeated ==
  /\ pc \in {"L324", "L328", "L356"} => state.steps["componentInstall"] = "done"
  /\ (loaded \notin {NoState, JsonNull, JsonEmptyObject}
        /\ loaded.steps["componentInstall"] = "done") =>
       /\ "componentInstall" \notin invoked
       /\ itemCmds = 0
       /\ state # NoState =>
            /\ state.installedComponents = loaded.installedComponents
            /\ state.failedComponents = loaded.failedComponents
            /\ state.steps["componentInstall"] = "done"
       /\ ckpt.kind = "json" =>
            /\ ckpt.val.installedComponents = loaded.installedComponents
            /\ ckpt.val.failedComponents = loaded.failedComponents
            /\ ckpt.val.steps["componentInstall"] = "done"

\* a run resumed from a checkpoint written after the installer had returned
\* with a failed component succeeds without an install command
C25_Witness ==
  /\ loaded # NoState
  /\ loaded.steps["componentInstall"] = "done"
  /\ loaded.steps["verification"] # "done"
  /\ loaded.failedComponents # <<>>
  /\ stop = "success"
  /\ invoked = {}
  /\ state.failedComponents = loaded.failedComponents

\* C26: in a run, an error that is set in main's state object stays set; a
\* resumed run starts with the error of its checkpoint; and when a run
\* resumed from a checkpoint with an error reaches the final summary and
\* exits with code 0 and all five steps done, its state still has that error.
C26_ErrorNeverCleared ==
  [][/\ (pc # "stopped" /\ state # NoState /\ state' # NoState /\ state.error # NoError)
          => state'.error # NoError
     /\ (pc = "stopped" /\ pc' = "L252" /\ loaded' # NoState)
          => state'.error = loaded'.error
     /\ (pc = "L356" /\ stop' = "success" /\ loaded # NoState)
          => /\ state' = state
             /\ state'.error = loaded.error
             /\ AllDone(state'.steps)
             /\ exitCode' = EXIT_SUCCESS]_vars

\* a run resumed after an interrupt has succeeded and its summary shows the
\* interrupt
C26_Witness ==
  /\ stop = "success"
  /\ exitCode = EXIT_SUCCESS
  /\ loaded # NoState
  /\ loaded.error = Err("Interrupted by", <<"SIGINT">>)
  /\ state.error = Err("Interrupted by", <<"SIGINT">>)
  /\ AllDone(state.steps)
  /\ ckpt.kind = "absent"

\* how far main has got: the position of its line in the pipeline and, in
\* the fallback loop, the position of the loop in the list
C27_Line(p) ==
  CASE p = "L252" -> 1 [] p = "awaitVite" -> 2 [] p = "L256" -> 3
    [] p = "L272" -> 4 [] p = "awaitNpm" -> 5 [] p = "L277" -> 6 [] p = "L281" -> 7
    [] p = "L290" -> 8 [] p = "awaitInit" -> 9 [] p = "L295" -> 10 [] p = "L299" -> 11
    [] p = "L308" -> 12 [] p = "awaitBatch" -> 13 [] p = "L257" -> 14 [] p = "awaitItem" -> 14
    [] p = "L313" -> 15 [] p = "L324" -> 16 [] p = "L328" -> 17 [] p = "L356" -> 18
    [] OTHER -> 0
C27_Measure(p, i) ==
  100 * C27_Line(p)
    + (IF p \in {"L257", "awaitItem"} THEN 2 * i + (IF p = "awaitItem" THEN 1 ELSE 0) ELSE 0)

\* C27: every run ends: with an exit code, unless the process is killed by
\* a crash.  Within a run main only moves forward: no line of a step is
\* reached twice, the fallback loop reaches each position of the list once,
\* and the only step that leaves main where it is is the bootstrap command
\* creating the project directory.
C27_RunTerminates ==
  /\ [][pc # "stopped" =>
          \/ pc' = "stopped"
          \/ C27_Measure(pc', idx') > C27_Measure(pc, idx)
          \/ pc' = pc /\ pc = "awaitVite" /\ ~dirExists /\ dirExists']_vars
  /\ (pc # "stopped") ~> (pc = "stopped" /\ (exitCode \in {EXIT_SUCCESS, EXIT_FAILURE} \/ stop = "crash"))

\* a run that went through the fallback loop for both items has exited
C27_Witness ==
  /\ pc = "stopped"
  /\ exitCode = EXIT_SUCCESS
  /\ itemCmds = 2
  /\ loaded = NoState
  /\ invoked = {"viteCreate", "npmInstall", "shadcnInit", "componentInstall"}

====
